---- MODULE Spec2Model ----
(***************************************************************************)
(* Result aggregation and ranking pipeline of streamlit_app.py:            *)
(* search (interleave, relevancy score, view boost, sort), deduplicate,    *)
(* post_filter and batch, run top to bottom by the script on every rerun.  *)
(*                                                                         *)
(* Backend values arrive as decimal strings; a decimal string is modelled  *)
(* as the sequence of its digits (<<1, 0>> is "10") and int() parses it.   *)
(* A relevancy_score is a real number; it is kept exactly as the triple    *)
(* [mul, num, boost] standing for mul * (num/3) ** (15/(15+boost)), which  *)
(* is the shape of every score the script computes.                        *)
(***************************************************************************)
EXTENDS Integers, Sequences, FiniteSets, TLC

VARIABLES
    pc,             \* the statement of the script to run next (lines 173-178)
    order_by,       \* the "Order by" selectbox (line 158)
    boost_views,    \* the "Boost views sorting" slider (line 149)
    minimum_views,  \* the "Minimum views" slider (line 146)
    response,       \* response.results of the backend call (line 112)
    results,        \* the script's results: a list, or None (lines 173-175)
    batches,        \* the groups handed to serialize_batch (lines 177-178)
    backend_calls,  \* calls of service.search made by this run (line 108)
    fn,             \* a single function call: the function called
    argA,           \* its first sequence argument
    argB,           \* its second sequence argument (interleaving only)
    argN,           \* its integer argument: minimum_views or batch_size
    ret             \* its return value, None until it returns

vars == <<pc, order_by, boost_views, minimum_views, response, results,
          batches, backend_calls, fn, argA, argB, argN, ret>>

appVars == <<pc, order_by, boost_views, minimum_views, response, results,
             batches, backend_calls>>

fnVars == <<fn, argA, argB, argN, ret>>

(***************************************************************************)
(* Bounds of the model.                                                    *)
(***************************************************************************)
MaxLen == 2
MaxInterleaveLen == 3
MaxSeq == 4
MaxBatchLen == 7
MaxBatchSize == 3

(***************************************************************************)
(* Program constants.                                                      *)
(***************************************************************************)
DefaultBatchSize == 3
DefaultMinimumViews == 3
DefaultBoostViews == 1
MaxBoostViews == 10
ConfidenceDivisor == 3
BoostDivisor == 15

(***************************************************************************)
(* Python's optional values: None is the empty sequence and a present      *)
(* value x is <<x>>.                                                       *)
(***************************************************************************)
None == <<>>
Some(x) == <<x>>
Value(o) == o[1]

OrderByOptions == {"relevancy+views", "relevancy", "unique_views"}
DefaultOrderBy == "relevancy+views"

(***************************************************************************)
(* int(): value of a decimal string, given as its digits.                  *)
(***************************************************************************)
RECURSIVE int(_)
int(s) == IF s = <<>> THEN 0 ELSE 10 * int(SubSeq(s, 1, Len(s) - 1)) + s[Len(s)]

(***************************************************************************)
(* Unbounded naturals, little-endian in base 10^6, for the exact           *)
(* comparison of powers.                                                   *)
(***************************************************************************)
Limb == 1000 * 1000

RECURSIVE MulCarry(_, _, _)
MulCarry(a, m, carry) ==
    IF a = <<>>
    THEN IF carry = 0 THEN <<>> ELSE <<carry>>
    ELSE LET t == a[1] * m + carry
         IN  <<t % Limb>> \o MulCarry(Tail(a), m, t \div Limb)

MulSmall(a, m) == IF m = 0 THEN <<>> ELSE MulCarry(a, m, 0)

RECURSIVE TimesPow(_, _, _)
TimesPow(a, m, e) == IF e = 0 THEN a ELSE TimesPow(MulSmall(a, m), m, e - 1)

RECURSIVE LeqFrom(_, _, _)
LeqFrom(a, b, i) ==
    IF i = 0 THEN TRUE
    ELSE IF a[i] # b[i] THEN a[i] < b[i]
    ELSE LeqFrom(a, b, i - 1)

BigLeq(a, b) ==
    IF Len(a) # Len(b) THEN Len(a) < Len(b) ELSE LeqFrom(a, b, Len(a))

RECURSIVE GCD(_, _)
GCD(a, b) == IF b = 0 THEN a ELSE GCD(b, a % b)

(***************************************************************************)
(* Scores.  [mul, num, boost] is mul * (num/3) ** (1/(boost/15 + 1)); the   *)
(* exponent is the fraction ExpNum/ExpDen in lowest terms.                 *)
(***************************************************************************)
ExpNum(b) == BoostDivisor \div GCD(BoostDivisor, BoostDivisor + b)
ExpDen(b) == (BoostDivisor + b) \div GCD(BoostDivisor, BoostDivisor + b)

\* mul^q * num^p, the q-th power of the score times 3^p
PowerOf(s) ==
    TimesPow(TimesPow(<<1>>, s.mul, ExpDen(s.boost)), s.num, ExpNum(s.boost))

\* s <= t for two scores with the same boost
ScoreLeq(s, t) == BigLeq(PowerOf(s), PowerOf(t))

ScoreLess(s, t) == ~ScoreLeq(t, s)

\* the greatest n in lo..hi with n^q * 3^p <= power, 3^p given as unit
RECURSIVE FloorBetween(_, _, _, _, _)
FloorBetween(lo, hi, unit, q, power) ==
    IF lo = hi THEN lo
    ELSE LET mid == (lo + hi + 1) \div 2
         IN  IF BigLeq(TimesPow(unit, mid, q), power)
             THEN FloorBetween(mid, hi, unit, q, power)
             ELSE FloorBetween(lo, mid - 1, unit, q, power)

\* int(x['relevancy_score']): truncation of a non-negative float
IntScore(s) ==
    LET unit == TimesPow(<<1>>, ConfidenceDivisor, ExpNum(s.boost))
        power == PowerOf(s)
    IN  FloorBetween(0, s.mul * s.num, unit, ExpDen(s.boost), power)

(***************************************************************************)
(* Records of the backend.  title and owner are opaque display values.     *)
(***************************************************************************)
Record(id, views, confidence) ==
    [app_id |-> id, title |-> <<"title", id>>, owner |-> <<"owner", id>>,
     unique_views |-> views, CONFIDENCE_SCORE |-> confidence]

AppIds == {"x", "y"}
ViewsValues == {<<0>>, <<2>>, <<1, 0>>}
ConfidenceValues == {<<1>>, <<3>>}
BoostValues == {0, DefaultBoostViews, MaxBoostViews}
MinimumViewsValues == {0, DefaultMinimumViews}

Records ==
    {Record(id, v, c) : id \in AppIds, v \in ViewsValues, c \in ConfidenceValues}

SeqsUpTo(S, n) == UNION {[1..k -> S] : k \in 0..n}

\* response.results of one backend call, at most MaxLen hits
Responses == SeqsUpTo(Records, MaxLen)

\* the score written, and the confidence score normalised in place
WithScoreNormalisingConfidence(result, score) ==
    [f \in DOMAIN result \cup {"relevancy_score"} |->
        IF f = "relevancy_score" THEN score
        ELSE IF f = "CONFIDENCE_SCORE"
        THEN <<int(result.CONFIDENCE_SCORE) \div ConfidenceDivisor>>
        ELSE result[f]]

\* {**result, "relevancy_score": score}
WithScore(result, score) ==
    [f \in DOMAIN result \cup {"relevancy_score"} |->
        IF f = "relevancy_score" THEN score ELSE result[f]]

(***************************************************************************)
(* zip_longest(A, B), chain.from_iterable and the "is not None" filter.    *)
(***************************************************************************)
Max(a, b) == IF a >= b THEN a ELSE b
Min(a, b) == IF a <= b THEN a ELSE b

\* zip() in place of zip_longest(): stops at the shorter input
ZipShortest(A, B) ==
    [i \in 1..Min(Len(A), Len(B)) |-> <<Some(A[i]), Some(B[i])>>]

\* zip_longest: pairs of optional values, the shorter input padded with None
ZipLongest(A, B) ==
    [i \in 1..Max(Len(A), Len(B)) |->
        <<IF i <= Len(A) THEN Some(A[i]) ELSE None,
          IF i <= Len(B) THEN Some(B[i]) ELSE None>>]

RECURSIVE ChainFromIterable(_)
ChainFromIterable(tuples) ==
    IF tuples = <<>> THEN <<>>
    ELSE Head(tuples) \o ChainFromIterable(Tail(tuples))

RECURSIVE DropNone(_)
DropNone(xs) ==
    IF xs = <<>> THEN <<>>
    ELSE IF Head(xs) # None THEN <<Value(Head(xs))>> \o DropNone(Tail(xs))
    ELSE DropNone(Tail(xs))

Interleave(A, B) == DropNone(ChainFromIterable(ZipLongest(A, B)))

(***************************************************************************)
(* sorted(seq, key=...): ascending by key, stable.  keys[i] is the key of  *)
(* seq[i]; the order is built by inserting each index after every index    *)
(* whose key is not greater.                                               *)
(***************************************************************************)
RECURSIVE InsertIndex(_, _, _)
InsertIndex(order, i, keys) ==
    IF order = <<>> THEN <<i>>
    ELSE IF keys[Head(order)] <= keys[i]
         THEN <<Head(order)>> \o InsertIndex(Tail(order), i, keys)
         ELSE <<i>> \o order

RECURSIVE SortOrder(_, _)
SortOrder(n, keys) ==
    IF n = 0 THEN <<>> ELSE InsertIndex(SortOrder(n - 1, keys), n, keys)

Sorted(seq, keys) ==
    LET order == SortOrder(Len(seq), keys)
    IN  [k \in 1..Len(seq) |-> seq[order[k]]]

(***************************************************************************)
(* search(query, filters, order_by), after the backend call.               *)
(***************************************************************************)
\* int(result['@CONFIDENCE_SCORE']) / 3
RelevancyScore(result) ==
    [mul |-> 1, num |-> int(result.CONFIDENCE_SCORE), boost |-> 0]

\* int(r['unique_views']) * r['relevancy_score'] ** (1/(boost_views/15 + 1))
BoostedScore(r, boost) ==
    [mul |-> int(r.unique_views), num |-> r.relevancy_score.num, boost |-> boost]

\* the response taken once instead of interleaved with itself
ZippedOnce(resp) == resp

Zipped(resp) == Interleave(resp, resp)

Relevancy(resp) ==
    LET zipped == Zipped(resp)
    IN  [i \in 1..Len(zipped) |-> WithScore(zipped[i], RelevancyScore(zipped[i]))]

Boosted(relevancy, boost) ==
    [i \in 1..Len(relevancy) |->
        WithScore(relevancy[i], BoostedScore(relevancy[i], boost))]

RelevancyKey(x) == -IntScore(x.relevancy_score)
\* the sign of the key forgotten: ascending views
ViewsKeyAscending(x) == int(x.unique_views)

ViewsKey(x) == -int(x.unique_views)

search(resp, order, boost) ==
    LET relevancy == Relevancy(resp)
    IN  IF order = "relevancy" THEN Some(relevancy)
        ELSE IF order = "relevancy+views"
        THEN LET boosted == Boosted(relevancy, boost)
             IN  Some(Sorted(boosted,
                             [i \in 1..Len(boosted) |-> RelevancyKey(boosted[i])]))
        ELSE IF order = "unique_views"
        THEN Some(Sorted(relevancy,
                         [i \in 1..Len(relevancy) |-> ViewsKey(relevancy[i])]))
        ELSE None

(***************************************************************************)
(* deduplicate, post_filter, batch.                                        *)
(***************************************************************************)
RECURSIVE DeduplicateFrom(_, _)
DeduplicateFrom(xs, app_ids) ==
    IF xs = <<>> THEN <<>>
    ELSE IF Head(xs).app_id \notin app_ids
         THEN <<Head(xs)>> \o DeduplicateFrom(Tail(xs), app_ids \cup {Head(xs).app_id})
         ELSE DeduplicateFrom(Tail(xs), app_ids)

\* the last occurrence of each app_id kept instead of the first
DeduplicateKeepLast(xs) ==
    LET last == {i \in 1..Len(xs) :
                   \A j \in (i + 1)..Len(xs) : xs[j].app_id # xs[i].app_id}
        at(k) == CHOOSE i \in last : Cardinality({j \in last : j < i}) = k - 1
    IN  [k \in 1..Cardinality(last) |-> xs[at(k)]]

deduplicate(xs) == DeduplicateFrom(xs, {})

\* > in place of >=
KeepsViewsStrict(x, minimum) == int(x.unique_views) > minimum

KeepsViews(x, minimum) == int(x.unique_views) >= minimum

post_filter(xs, minimum) == SelectSeq(xs, LAMBDA x : KeepsViews(x, minimum))

\* range(0, l - batch_size + 1, batch_size): the short last group is lost
RECURSIVE BatchFullOnly(_, _, _)
BatchFullOnly(iterable, batch_size, ndx) ==
    IF ndx + batch_size > Len(iterable) THEN <<>>
    ELSE <<SubSeq(iterable, ndx + 1, ndx + batch_size)>>
         \o BatchFullOnly(iterable, batch_size, ndx + batch_size)

RECURSIVE BatchFrom(_, _, _)
BatchFrom(iterable, batch_size, ndx) ==
    LET l == Len(iterable)
    IN  IF ndx >= l THEN <<>>
        ELSE <<SubSeq(iterable, ndx + 1, Min(ndx + batch_size, l))>>
             \o BatchFrom(iterable, batch_size, ndx + batch_size)

batch(iterable, batch_size) == BatchFrom(iterable, batch_size, 0)

(***************************************************************************)
(* The script: one run per rerun of the page.                              *)
(***************************************************************************)
FnIdle ==
    /\ fn = "none" /\ argA = <<>> /\ argB = <<>> /\ argN = 0 /\ ret = None

Init ==
    /\ pc = "start"
    /\ order_by = DefaultOrderBy
    /\ boost_views = DefaultBoostViews
    /\ minimum_views = DefaultMinimumViews
    /\ response = <<>>
    /\ results = Some(<<>>)
    /\ batches = <<>>
    /\ backend_calls = 0
    /\ FnIdle

\* results = search(query, filters, order_by)
Search ==
    /\ pc = "start"
    /\ \E resp \in Responses :
         /\ response' = resp
         /\ results' = search(resp, order_by, boost_views)
    /\ backend_calls' = backend_calls + 1
    /\ pc' = "searched"
    /\ UNCHANGED <<order_by, boost_views, minimum_views, batches>>
    /\ UNCHANGED fnVars

\* results = deduplicate(results); iterating None raises TypeError
Deduplicate ==
    /\ pc = "searched"
    /\ IF results = None
       THEN pc' = "crashed" /\ results' = results
       ELSE pc' = "deduplicated" /\ results' = Some(deduplicate(Value(results)))
    /\ UNCHANGED <<order_by, boost_views, minimum_views, response, batches,
                   backend_calls>>
    /\ UNCHANGED fnVars

\* results = post_filter(results, minimum_views)
PostFilter ==
    /\ pc = "deduplicated"
    /\ results' = Some(post_filter(Value(results), minimum_views))
    /\ pc' = "filtered"
    /\ UNCHANGED <<order_by, boost_views, minimum_views, response, batches,
                   backend_calls>>
    /\ UNCHANGED fnVars

\* for b in batch(results): serialize_batch(b)
Render ==
    /\ pc = "filtered"
    /\ batches' = batch(Value(results), DefaultBatchSize)
    /\ pc' = "done"
    /\ UNCHANGED <<order_by, boost_views, minimum_views, response, results,
                   backend_calls>>
    /\ UNCHANGED fnVars

\* a widget changes and the script runs again from the top
Rerun ==
    /\ pc \in {"done", "crashed"}
    /\ order_by' \in OrderByOptions
    /\ boost_views' \in BoostValues
    /\ minimum_views' \in MinimumViewsValues
    /\ response' = <<>>
    /\ results' = Some(<<>>)
    /\ batches' = <<>>
    /\ backend_calls' = 0
    /\ pc' = "start"
    /\ UNCHANGED fnVars

Next == Search \/ Deduplicate \/ PostFilter \/ Render \/ Rerun

Spec == Init /\ [][Next]_vars

(***************************************************************************)
(* search() as a callable: the caller's order_by is any string, the       *)
(* selectbox of the page being only one caller.                            *)
(***************************************************************************)
UnknownOrderBy == "default"

ApiInit ==
    /\ pc = "start"
    /\ order_by \in OrderByOptions \cup {UnknownOrderBy}
    /\ boost_views \in BoostValues
    /\ minimum_views = DefaultMinimumViews
    /\ response = <<>>
    /\ results = Some(<<>>)
    /\ batches = <<>>
    /\ backend_calls = 0
    /\ FnIdle

ApiSpec == ApiInit /\ [][Next]_vars

(***************************************************************************)
(* The functions of the pipeline on their own: one call of one function    *)
(* on arguments drawn from bounded sets.                                   *)
(***************************************************************************)
FnAppIds == {"x", "y", "z"}
FnViewsValues == {<<2>>, <<1, 0>>}
ThresholdValues == {0, 2, 5, 11}

FnRecords == {Record(id, v, <<1>>) : id \in FnAppIds, v \in FnViewsValues}
InterleaveItems == {Record(id, <<2>>, <<1>>) : id \in FnAppIds}
BatchItems == {Record(id, <<2>>, <<1>>) : id \in {"x", "y"}}

AppIdle ==
    /\ pc = "start"
    /\ order_by = DefaultOrderBy
    /\ boost_views = DefaultBoostViews
    /\ minimum_views = DefaultMinimumViews
    /\ response = <<>>
    /\ results = Some(<<>>)
    /\ batches = <<>>
    /\ backend_calls = 0

FnInit ==
    /\ AppIdle
    /\ ret = None
    /\ \/ /\ fn = "interleave"
          /\ argA \in SeqsUpTo(InterleaveItems, MaxInterleaveLen)
          /\ argB \in SeqsUpTo(InterleaveItems, MaxInterleaveLen)
          /\ argN = 0
       \/ /\ fn = "deduplicate"
          /\ argA \in SeqsUpTo(FnRecords, MaxSeq)
          /\ argB = <<>>
          /\ argN = 0
       \/ /\ fn = "post_filter"
          /\ argA \in SeqsUpTo(FnRecords, MaxSeq)
          /\ argB = <<>>
          /\ argN \in ThresholdValues
       \/ /\ fn = "batch"
          /\ argA \in SeqsUpTo(BatchItems, MaxBatchLen)
          /\ argB = <<>>
          /\ argN \in 1..MaxBatchSize

CallInterleave ==
    /\ fn = "interleave" /\ ret = None
    /\ ret' = Some(Interleave(argA, argB))
    /\ UNCHANGED <<fn, argA, argB, argN>>
    /\ UNCHANGED appVars

CallDeduplicate ==
    /\ fn = "deduplicate" /\ ret = None
    /\ ret' = Some(deduplicate(argA))
    /\ UNCHANGED <<fn, argA, argB, argN>>
    /\ UNCHANGED appVars

CallPostFilter ==
    /\ fn = "post_filter" /\ ret = None
    /\ ret' = Some(post_filter(argA, argN))
    /\ UNCHANGED <<fn, argA, argB, argN>>
    /\ UNCHANGED appVars

\* list(batch(iterable, batch_size)): the generator run to its end
CallBatch ==
    /\ fn = "batch" /\ ret = None
    /\ ret' = Some(batch(argA, argN))
    /\ UNCHANGED <<fn, argA, argB, argN>>
    /\ UNCHANGED appVars

FnNext == CallInterleave \/ CallDeduplicate \/ CallPostFilter \/ CallBatch

FnSpec == FnInit /\ [][FnNext]_vars

(***************************************************************************)
(* Vocabulary of the properties.                                           *)
(***************************************************************************)
Range(s) == {s[i] : i \in DOMAIN s}

Count(s, x) == Cardinality({i \in DOMAIN s : s[i] = x})

\* the k-th smallest element of a set of indices
KthOf(S, k) == CHOOSE i \in S : Cardinality({j \in S : j < i}) = k - 1

\* the subsequence of s at the indices S, in order
SubsequenceAt(s, S) == [k \in 1..Cardinality(S) |-> s[KthOf(S, k)]]

BackendFields(r) ==
    [app_id |-> r.app_id, title |-> r.title, owner |-> r.owner,
     unique_views |-> r.unique_views, CONFIDENCE_SCORE |-> r.CONFIDENCE_SCORE]

AppIdsOf(s) == {s[i].app_id : i \in DOMAIN s}

IsPermutationOf(out, inp) ==
    /\ Len(out) = Len(inp)
    /\ \A x \in Range(inp) \cup Range(out) : Count(out, x) = Count(inp, x)

Returned(name) == fn = name /\ ret # None

(***************************************************************************)
(* C1: interleaving A and B alternates one record of A and one of B,       *)
(* starting with A, for as long as both last, then appends the rest of the *)
(* longer one in its order; the result has |A| + |B| entries, every one of *)
(* them a record of A or of B (no placeholder).                            *)
(***************************************************************************)
C1_InterleaveAlternates ==
    Returned("interleave") =>
        LET out == Value(ret)
            m == Min(Len(argA), Len(argB))
        IN  /\ Len(out) = Len(argA) + Len(argB)
            /\ \A i \in 1..m : out[2 * i - 1] = argA[i] /\ out[2 * i] = argB[i]
            /\ \A j \in 1..(Len(argA) - m) : out[2 * m + j] = argA[m + j]
            /\ \A j \in 1..(Len(argB) - m) : out[2 * m + j] = argB[m + j]
            /\ \A k \in 1..Len(out) : out[k] \in Range(argA) \cup Range(argB)

C1_Witness ==
    /\ Returned("interleave")
    /\ Len(argA) = 3 /\ Len(argB) = 2
    /\ Range(argA) \cap Range(argB) = {}
    /\ Len(Value(ret)) = 5

(***************************************************************************)
(* C2: with order_by = 'relevancy' search returns the scored records in    *)
(* descending order of relevancy_score, records of equal score in their    *)
(* interleaved order, the scores being the unboosted int(confidence)/3.    *)
(***************************************************************************)
C2_RelevancySortedDescending ==
    (pc = "searched" /\ order_by = "relevancy") =>
        LET out == Value(results)
            inp == Relevancy(response)
        IN  /\ IsPermutationOf(out, inp)
            /\ \A i, j \in 1..Len(out) :
                  i < j => ScoreLeq(out[j].relevancy_score, out[i].relevancy_score)
            /\ \A c \in ConfidenceValues :
                  SubsequenceAt(out, {i \in 1..Len(out) : out[i].CONFIDENCE_SCORE = c})
                    = SubsequenceAt(inp, {i \in 1..Len(inp) : inp[i].CONFIDENCE_SCORE = c})

(***************************************************************************)
(* C3: with order_by = 'relevancy+views' every record's relevancy_score is *)
(* unique_views * (int(confidence)/3) ** (1/(boost_views/15 + 1)) and no   *)
(* record comes before a record whose boosted score is strictly greater.   *)
(***************************************************************************)
C3_BoostedSortedDescending ==
    (pc = "searched" /\ order_by = "relevancy+views") =>
        LET out == Value(results)
        IN  /\ \A i \in 1..Len(out) :
                  out[i].relevancy_score =
                      [mul |-> int(out[i].unique_views),
                       num |-> int(out[i].CONFIDENCE_SCORE),
                       boost |-> boost_views]
            /\ \A i, j \in 1..Len(out) :
                  i < j => ~ScoreLess(out[i].relevancy_score, out[j].relevancy_score)

(***************************************************************************)
(* C4: with order_by = 'unique_views' search returns a permutation of the  *)
(* scored interleaved records in descending order of int(unique_views),    *)
(* the records of each unique_views value in their interleaved order.      *)
(***************************************************************************)
C4_UniqueViewsStableSort ==
    (pc = "searched" /\ order_by = "unique_views") =>
        LET out == Value(results)
            inp == Relevancy(response)
        IN  /\ IsPermutationOf(out, inp)
            /\ \A i, j \in 1..Len(out) :
                  i < j => int(out[i].unique_views) >= int(out[j].unique_views)
            /\ \A v \in ViewsValues :
                  SubsequenceAt(out, {i \in 1..Len(out) : out[i].unique_views = v})
                    = SubsequenceAt(inp, {i \in 1..Len(inp) : inp[i].unique_views = v})

C4_Witness ==
    /\ pc = "searched" /\ order_by = "unique_views"
    /\ Len(response) = 2
    /\ int(response[1].unique_views) < int(response[2].unique_views)
    /\ Value(results)[1].app_id = response[2].app_id

(***************************************************************************)
(* C5: deduplicate returns the first occurrence of every app_id of its     *)
(* input, and nothing else, in input order.                                *)
(***************************************************************************)
C5_DeduplicateKeepsFirst ==
    Returned("deduplicate") =>
        LET out == Value(ret)
            first == {i \in 1..Len(argA) :
                        \A j \in 1..(i - 1) : argA[j].app_id # argA[i].app_id}
        IN  /\ \A i, j \in 1..Len(out) : i # j => out[i].app_id # out[j].app_id
            /\ AppIdsOf(out) = AppIdsOf(argA)
            /\ out = SubsequenceAt(argA, first)

C5_Witness ==
    /\ Returned("deduplicate")
    /\ Len(argA) = 4
    /\ <<argA[1].app_id, argA[2].app_id, argA[3].app_id, argA[4].app_id>>
         = <<"x", "y", "x", "z">>
    /\ argA[1] # argA[3]
    /\ Value(ret) = <<argA[1], argA[2], argA[4]>>

(***************************************************************************)
(* C6: post_filter returns exactly the records whose int(unique_views) is  *)
(* at least the threshold, in input order.                                 *)
(***************************************************************************)
C6_PostFilterKeepsAtLeast ==
    Returned("post_filter") =>
        LET out == Value(ret)
            kept == {i \in 1..Len(argA) : int(argA[i].unique_views) >= argN}
        IN  /\ out = SubsequenceAt(argA, kept)
            /\ \A k \in 1..Len(out) : int(out[k].unique_views) >= argN

C6_Witness ==
    /\ Returned("post_filter")
    /\ argN = 5
    /\ Len(argA) = 4
    /\ Len(Value(ret)) = 2
    /\ int(argA[1].unique_views) < 5

(***************************************************************************)
(* C7: batch cuts its input into ceil(n/s) consecutive groups whose        *)
(* concatenation is the input; every group but the last has s records and  *)
(* the last has between 1 and s.                                           *)
(***************************************************************************)
C7_BatchPartitions ==
    Returned("batch") =>
        LET groups == Value(ret)
            n == Len(argA)
        IN  /\ ChainFromIterable(groups) = argA
            /\ Len(groups) = (n + argN - 1) \div argN
            /\ \A g \in 1..(Len(groups) - 1) : Len(groups[g]) = argN
            /\ Len(groups) > 0 =>
                  Len(groups[Len(groups)]) \in 1..argN
            /\ n = 0 => groups = <<>>

C7_Witness ==
    /\ Returned("batch")
    /\ Len(argA) = 7 /\ argN = 3
    /\ Len(Value(ret)) = 3
    /\ <<Len(Value(ret)[1]), Len(Value(ret)[2]), Len(Value(ret)[3])>> = <<3, 3, 1>>

FromBackend(x) == \E r \in Range(response) : BackendFields(x) = r

C9_OnlyRelevancyScoreChanges ==
    /\ results # None =>
          \A i \in 1..Len(Value(results)) : FromBackend(Value(results)[i])
    /\ \A g \in 1..Len(batches) :
          \A i \in 1..Len(batches[g]) : FromBackend(batches[g][i])

C9_Witness ==
    /\ pc = "done"
    /\ order_by = "relevancy+views"
    /\ Len(batches) = 1 /\ Len(batches[1]) = 2
    /\ batches[1][1].relevancy_score.mul = 10
    /\ batches[1][1].app_id # batches[1][2].app_id

(***************************************************************************)
(* C10: search returns every record of the response exactly twice, 2N      *)
(* records for N hits, under each strategy; after deduplicate every        *)
(* app_id of the response is held exactly once.                            *)
(***************************************************************************)
C10_TwiceThenOnce ==
    /\ (pc = "searched" /\ order_by \in OrderByOptions) =>
          LET out == Value(results)
              fields == [i \in 1..Len(out) |-> BackendFields(out[i])]
          IN  /\ Len(out) = 2 * Len(response)
              /\ \A r \in Range(response) \cup Range(fields) :
                    Count(fields, r) = 2 * Count(response, r)
    /\ pc = "deduplicated" =>
          LET out == Value(results)
          IN  /\ \A a \in AppIdsOf(response) :
                    Cardinality({i \in 1..Len(out) : out[i].app_id = a}) = 1
              /\ AppIdsOf(out) = AppIdsOf(response)
              /\ Len(out) = Cardinality(AppIdsOf(response))

C10_Witness ==
    /\ pc = "deduplicated"
    /\ Len(response) = 2
    /\ response[1].app_id = response[2].app_id
    /\ response[1] # response[2]
    /\ Len(Value(results)) = 1

====
